---- MODULE Spec2Model ----
(***************************************************************************)
(* Model of draw_matrix.cc: the departure board's main loop (data refresh, *)
(* layout toggle, departure rows, ticker scroll, frame handoff), the       *)
(* ticker list construction update_scroll_messages and the countdown       *)
(* computation of a departure row.                                         *)
(*                                                                         *)
(* Conventions.                                                            *)
(*  - A std::string is a sequence of characters; size() is Len. A literal  *)
(*    of the source in Japanese is written as a one-element ASCII tag (the *)
(*    literal is given next to it), the train types as one element per     *)
(*    character; the scroll arithmetic only reads size().                  *)
(*  - A json value is a record [t, s, m]: t its type, s the text of a      *)
(*    string, m the members of an object (sorted by key, as std::map       *)
(*    iterates) or the elements of an array, each member [k, v].           *)
(*  - A call that can throw returns a record with a field thrown.          *)
(*  - time_t counts seconds from local midnight of day 0; struct tm keeps  *)
(*    tm_mday (the day number), tm_hour, tm_min, tm_sec. No DST change     *)
(*    falls into the modelled days.                                        *)
(*  - steady_clock is counted in ticks, TicksPerSec to the second.         *)
(***************************************************************************)
EXTENDS Integers, Sequences, FiniteSets, TLC

\* ------------------------------------------------------------- bounds
\* clock resolution of the model: ticks per second of steady_clock
TicksPerSec == 2
\* the last steady_clock reading explored while the files stay missing, in
\* ticks
MaxClock == 31
\* the last steady_clock reading explored while the files change, in ticks
ScrollClock == 5
\* the longest time one loop iteration may take, in ticks
MaxStep == 2
\* panel width in pixels used for the scroll (the panel of the source is
\* 128 wide; the scroll logic is uniform in the width)
Width == 2

\* ------------------------------------------------------------- colours
\* struct ColorRGB {r, g, b}
ColorRGB(r, g, b) == [r |-> r, g |-> g, b |-> b]
COL_BLACK == ColorRGB(0, 0, 0)
COL_WHITE == ColorRGB(255, 255, 255)
COL_RED == ColorRGB(255, 0, 0)
COL_GREEN == ColorRGB(0, 255, 0)
COL_BLUE == ColorRGB(0, 0, 255)
COL_MAGENTA == ColorRGB(255, 0, 255)
COL_ORANGE == ColorRGB(255, 172, 0)
COL_YELLOW == ColorRGB(255, 255, 0)
COL_CYAN == ColorRGB(0, 255, 255)

\* Color ToMatrixColor(const ColorRGB &c)
ToMatrixColor(c) == [r |-> c.r, g |-> c.g, b |-> c.b]

\* ------------------------------------------------------------- strings
DigitChars == <<"0", "1", "2", "3", "4", "5", "6", "7", "8", "9">>

IsDigit(c) == \E d \in 1..10 : DigitChars[d] = c

DigitVal(c) == (CHOOSE d \in 1..10 : DigitChars[d] = c) - 1

\* std::to_string(int)
RECURSIVE NatToString(_)
NatToString(n) ==
    IF n < 10 THEN <<DigitChars[n + 1]>>
    ELSE NatToString(n \div 10) \o <<DigitChars[(n % 10) + 1]>>

to_string(n) == IF n < 0 THEN <<"-">> \o NatToString(-n) ELSE NatToString(n)

\* "%02d" of a value 0..99, used to write the HH:MM inputs
Fmt2(n) == <<DigitChars[(n \div 10) + 1], DigitChars[(n % 10) + 1]>>

\* ------------------------------------------------------------- json
JNull == [t |-> "null", s |-> <<>>, m |-> <<>>]
JStr(s) == [t |-> "string", s |-> s, m |-> <<>>]
JNum == [t |-> "number", s |-> <<>>, m |-> <<>>]
\* the elements of an array iterate under their index as key
JArr(vs) == [t |-> "array", s |-> <<>>,
             m |-> [i \in 1..Len(vs) |-> [k |-> to_string(i - 1), v |-> vs[i]]]]
JObj(ms) == [t |-> "object", s |-> <<>>, m |-> ms]
Member(k, v) == [k |-> k, v |-> v]

is_null(j) == j.t = "null"
is_array(j) == j.t = "array"

\* json::empty(): null is empty, a container is empty without elements,
\* any other value is not
empty(j) ==
    CASE j.t = "null" -> TRUE
      [] j.t \in {"array", "object"} -> Len(j.m) = 0
      [] OTHER -> FALSE

\* json::contains(key): false for anything but an object
contains(j, key) == j.t = "object" /\ \E i \in 1..Len(j.m) : j.m[i].k = key

\* json::operator[](key) on an object that contains the key
at_key(j, key) == j.m[CHOOSE i \in 1..Len(j.m) : j.m[i].k = key].v

\* json::operator[](size_type) with index 0: throws type_error 305 unless
\* the value is an array
at_0(j) ==
    IF j.t = "array" /\ Len(j.m) > 0
    THEN [thrown |-> FALSE, v |-> j.m[1].v]
    ELSE [thrown |-> TRUE, v |-> JNull]

\* json::value(key, default) to std::string: throws type_error 306 on a
\* value that is no object and type_error 302 on a member that is no string
value(j, key, default) ==
    IF j.t # "object" THEN [thrown |-> TRUE, v |-> <<>>]
    ELSE IF ~contains(j, key) THEN [thrown |-> FALSE, v |-> default]
    ELSE IF at_key(j, key).t # "string" THEN [thrown |-> TRUE, v |-> <<>>]
    ELSE [thrown |-> FALSE, v |-> at_key(j, key).s]

\* ------------------------------------------------------------- time
\* std::localtime
localtime(t) ==
    [tm_mday |-> t \div 86400, tm_hour |-> (t % 86400) \div 3600,
     tm_min |-> (t % 3600) \div 60, tm_sec |-> t % 60]

\* std::mktime, which normalises fields out of their range
mktime(tm) == tm.tm_mday * 86400 + tm.tm_hour * 3600 + tm.tm_min * 60 + tm.tm_sec

\* ------------------------------------------------------------- sscanf
RECURSIVE SkipSpace(_, _)
SkipSpace(s, i) == IF i <= Len(s) /\ s[i] = " " THEN SkipSpace(s, i + 1) ELSE i

RECURSIVE ScanDigits(_, _, _)
ScanDigits(s, i, acc) ==
    IF i <= Len(s) /\ IsDigit(s[i])
    THEN ScanDigits(s, i + 1, acc * 10 + DigitVal(s[i]))
    ELSE [val |-> acc, next |-> i]

\* the value of a conversion %d whose digits r start at k: it fails without
\* a digit
ScanResult(r, k, negative) ==
    [ok |-> r.next > k, val |-> IF negative THEN -r.val ELSE r.val,
     next |-> r.next]

\* the conversion %d from j on: an optional sign, then the digits
ScanSigned(s, j) ==
    IF j <= Len(s) /\ s[j] \in {"-", "+"}
    THEN ScanResult(ScanDigits(s, j + 1, 0), j + 1, s[j] = "-")
    ELSE ScanResult(ScanDigits(s, j, 0), j, FALSE)

\* the conversion %d: leading blanks are skipped
ScanInt(s, i) == ScanSigned(s, SkipSpace(s, i))

\* sscanf after the first %d gave a and the ':' matched: the second %d is b
ScanMinute(a, b) ==
    IF ~b.ok THEN [n |-> 1, dep_hour |-> a.val, dep_min |-> 0]
    ELSE [n |-> 2, dep_hour |-> a.val, dep_min |-> b.val]

\* sscanf after the first %d gave a: the literal ':' has to follow
ScanColon(s, a) ==
    IF ~a.ok THEN [n |-> 0, dep_hour |-> 0, dep_min |-> 0]
    ELSE IF ~(a.next <= Len(s) /\ s[a.next] = ":")
    THEN [n |-> 1, dep_hour |-> a.val, dep_min |-> 0]
    ELSE ScanMinute(a, ScanInt(s, a.next + 1))

\* sscanf(dep_time.c_str(), "%d:%d", &dep_hour, &dep_min): n is its result
sscanf_hm(s) == ScanColon(s, ScanInt(s, 1))

\* ------------------------------------------------------------- texts
\* "始発"
TXT_FIRST == <<"shihatsu">>
\* "終電"
TXT_LAST == <<"shuuden">>
\* "分後"
TXT_MIN_LATER == <<"fungo">>
\* "--:--"
TXT_NO_TIME == <<"-", "-", ":", "-", "-">>
\* "方面"
TXT_DIRECTION == <<"houmen">>
\* "駅まで走れ"
TXT_RUN == <<"eki-made-hashire">>
\* "今すぐ出発"
TXT_LEAVE_NOW == <<"ima-sugu-shuppatsu">>

\* std::vector<std::pair<std::string, ColorRGB>> type_color_map
type_color_map ==
    << <<(<<"kai", "soku", "kyuu", "kou">>), COL_ORANGE>>,
       <<(<<"tsuu", "kin", "tok", "kai">>), COL_MAGENTA>>,
       <<(<<"chuu", "ou", "tok", "kai">>), COL_BLUE>>,
       <<(<<"ku", "kan", "kai", "soku">>), COL_GREEN>>,
       <<(<<"kaku", "eki", "tei", "sha">>), COL_BLUE>>,
       <<(<<"shin", "kai", "soku">>), COL_BLUE>>,
       <<(<<"tok", "kai">>), COL_MAGENTA>>,
       <<(<<"tok", "kyuu">>), COL_RED>>,
       <<(<<"kyuu", "kou">>), COL_RED>>,
       <<(<<"kai", "soku">>), COL_RED>>,
       <<(<<"jun", "kyuu">>), COL_GREEN>>,
       <<(<<"fu", "tsuu">>), COL_GREEN>>,
       <<(<<"kaku", "eki">>), COL_BLUE>>,
       <<(<<"kaku", "tei">>), COL_BLUE>> >>

\* std::string::find(key) != npos
find(s, key) ==
    \E i \in 0..(Len(s) - Len(key)) : \A j \in 1..Len(key) : s[i + j] = key[j]

\* the loop over type_color_map: the first key found in line_type wins
RECURSIVE TypeColorFrom(_, _)
TypeColorFrom(line_type, i) ==
    IF i > Len(type_color_map) THEN ToMatrixColor(COL_WHITE)
    ELSE IF find(line_type, type_color_map[i][1])
    THEN ToMatrixColor(type_color_map[i][2])
    ELSE TypeColorFrom(line_type, i + 1)

col_type_of(line_type) == TypeColorFrom(line_type, 1)

\* ------------------------------------------------------------- countdown
\* static_cast<int>(diff_seconds / 60.0): the conversion truncates toward 0
MinutesCast(diff_seconds) ==
    IF diff_seconds >= 0 THEN diff_seconds \div 60 ELSE -((-diff_seconds) \div 60)

\* a rollover that also takes a departure in the hour of 3 for tomorrow's
RolloverLoose(dep_hour, now_hour) == dep_hour <= 3 /\ now_hour >= 3

\* the day-rollover test of the candidate departure
Rollover(dep_hour, now_hour) == dep_hour < 3 /\ now_hour >= 3

\* tm_dep: the current day at dep_hour:dep_min:00, a day later on rollover
tm_dep_of(p, tm_now_calc) ==
    [tm_mday |-> IF Rollover(p.dep_hour, tm_now_calc.tm_hour)
                 THEN tm_now_calc.tm_mday + 1 ELSE tm_now_calc.tm_mday,
     tm_hour |-> p.dep_hour, tm_min |-> p.dep_min, tm_sec |-> 0]

\* a difference taken the wrong way round
diff_minutes_swapped(t_dep, t_now_calc) == MinutesCast(t_now_calc - t_dep) + 1

\* int diff_minutes
diff_minutes_of(t_dep, t_now_calc) == MinutesCast(t_dep - t_now_calc) + 1

\* thresholds that leave 17 minutes to the yellow tier
CountdownColorStrict(diff_minutes) ==
    IF diff_minutes < 17 THEN ToMatrixColor(COL_RED)
    ELSE IF diff_minutes <= 20 THEN ToMatrixColor(COL_YELLOW)
    ELSE ToMatrixColor(COL_GREEN)

\* the colour of a numeric countdown
CountdownColor(diff_minutes) ==
    IF diff_minutes <= 17 THEN ToMatrixColor(COL_RED)
    ELSE IF diff_minutes <= 20 THEN ToMatrixColor(COL_YELLOW)
    ELSE ToMatrixColor(COL_GREEN)

\* time_text and time_col once diff_minutes is known
CountdownOf(diff_minutes, t_dep) ==
    IF diff_minutes > 99
    THEN [time_text |-> TXT_FIRST, time_col |-> ToMatrixColor(COL_BLUE),
          parsed |-> TRUE, t_dep |-> t_dep, diff_minutes |-> diff_minutes]
    ELSE [time_text |-> to_string(diff_minutes) \o TXT_MIN_LATER,
          time_col |-> CountdownColor(diff_minutes),
          parsed |-> TRUE, t_dep |-> t_dep, diff_minutes |-> diff_minutes]

\* a time that does not parse leaves the colour of the countdown red
TimeOfParsedRed(p, t_now_calc) ==
    IF p.n = 2
    THEN CountdownOf(
             diff_minutes_of(mktime(tm_dep_of(p, localtime(t_now_calc))), t_now_calc),
             mktime(tm_dep_of(p, localtime(t_now_calc))))
    ELSE [time_text |-> TXT_NO_TIME, time_col |-> ToMatrixColor(COL_RED),
          parsed |-> FALSE, t_dep |-> 0, diff_minutes |-> 0]

\* the branch that calls sscanf, p its result; parsed, t_dep and diff_minutes
\* are the locals of the arithmetic
TimeOfParsed(p, t_now_calc) ==
    IF p.n = 2
    THEN CountdownOf(
             diff_minutes_of(mktime(tm_dep_of(p, localtime(t_now_calc))), t_now_calc),
             mktime(tm_dep_of(p, localtime(t_now_calc))))
    ELSE [time_text |-> TXT_NO_TIME, time_col |-> ToMatrixColor(COL_GREEN),
          parsed |-> FALSE, t_dep |-> 0, diff_minutes |-> 0]

\* a countdown that looks at the departure time before the status
TimeCalcParseFirst(status, dep_time, t_now_calc) ==
    IF sscanf_hm(dep_time).n # 2
    THEN TimeOfParsed(sscanf_hm(dep_time), t_now_calc)
    ELSE IF status = TXT_FIRST
    THEN [time_text |-> TXT_FIRST, time_col |-> ToMatrixColor(COL_BLUE),
          parsed |-> FALSE, t_dep |-> 0, diff_minutes |-> 0]
    ELSE IF status = TXT_LAST
    THEN [time_text |-> TXT_LAST, time_col |-> ToMatrixColor(COL_RED),
          parsed |-> FALSE, t_dep |-> 0, diff_minutes |-> 0]
    ELSE TimeOfParsed(sscanf_hm(dep_time), t_now_calc)

\* time_text and time_col of a row ("時間計算と色決定")
TimeCalc(status, dep_time, t_now_calc) ==
    IF status = TXT_FIRST
    THEN [time_text |-> TXT_FIRST, time_col |-> ToMatrixColor(COL_BLUE),
          parsed |-> FALSE, t_dep |-> 0, diff_minutes |-> 0]
    ELSE IF status = TXT_LAST
    THEN [time_text |-> TXT_LAST, time_col |-> ToMatrixColor(COL_RED),
          parsed |-> FALSE, t_dep |-> 0, diff_minutes |-> 0]
    ELSE TimeOfParsed(sscanf_hm(dep_time), t_now_calc)

\* ------------------------------------------------------------- canvas
\* rgb_matrix::DrawText(offscreen, font, x, y, color, NULL, text, 0)
DrawText(x, y, col, text) ==
    [op |-> "text", x |-> x, y |-> y, x1 |-> x, y1 |-> y, col |-> col, text |-> text]

\* rgb_matrix::DrawLine(offscreen, x0, y0, x1, y1, color)
DrawLine(x0, y0, x1, y1, col) ==
    [op |-> "line", x |-> x0, y |-> y0, x1 |-> x1, y1 |-> y1, col |-> col, text |-> <<>>]

\* int row_y_positions[] = {9, 20}
row_y_positions == <<9, 20>>

\* ------------------------------------------------------------- rows
\* the test that lets an entry of the board be drawn
HasSegments(val) ==
    ~is_null(val) /\ contains(val, <<"segments">>)
        /\ ~empty(at_key(val, <<"segments">>))

\* dest_text and dest_col of the primary layout ("A面")
DestOf(destination, time_col) ==
    IF time_col.r = COL_RED.r /\ time_col.g = COL_RED.g /\ time_col.b = COL_RED.b
    THEN [dest_text |-> TXT_RUN, dest_col |-> ToMatrixColor(COL_RED)]
    ELSE IF time_col.r = COL_YELLOW.r /\ time_col.g = COL_YELLOW.g
            /\ time_col.b = COL_YELLOW.b
    THEN [dest_text |-> TXT_LEAVE_NOW, dest_col |-> ToMatrixColor(COL_YELLOW)]
    ELSE [dest_text |-> destination, dest_col |-> ToMatrixColor(COL_ORANGE)]

RowThrown == [thrown |-> TRUE, row |-> <<>>, cmds |-> <<>>]

\* the drawing of a row ("表示切替ロジック"): the alternate layout ("B面")
\* or the primary one ("A面"), d its dest_text and dest_col; row keeps the
\* locals of the entry
RenderRow(dest_name, line_type, dep_time, destination, status, tc, d, y, alt) ==
    [thrown |-> FALSE,
     row |-> << [dest_name |-> dest_name, status |-> status, dep_time |-> dep_time,
                 destination |-> destination, line_type |-> line_type,
                 alt |-> alt, time_text |-> tc.time_text, time_col |-> tc.time_col,
                 parsed |-> tc.parsed, t_dep |-> tc.t_dep,
                 diff_minutes |-> tc.diff_minutes,
                 dest_text |-> d.dest_text, dest_col |-> d.dest_col] >>,
     cmds |-> IF alt
              THEN << DrawText(0, y, col_type_of(line_type), line_type),
                      DrawText(50, y, ToMatrixColor(COL_GREEN), dep_time),
                      DrawText(Width - 50, y, ToMatrixColor(COL_ORANGE),
                               destination) >>
              ELSE << DrawText(0, y, ToMatrixColor(COL_WHITE),
                               dest_name \o TXT_DIRECTION),
                      DrawText(45, y, tc.time_col, tc.time_text),
                      DrawText(Width - 50, y, d.dest_col, d.dest_text) >>]

\* a row once time_text and time_col (tc) are computed
RenderTimed(dest_name, line_type, dep_time, destination, status, tc, y, alt) ==
    RenderRow(dest_name, line_type, dep_time, destination, status, tc,
              DestOf(destination, tc.time_col), y, alt)

\* a row once the four value() calls have returned or thrown
RenderFields(dest_name, line_type, dep_time, destination, status, y, alt, t_now_calc) ==
    IF line_type.thrown \/ dep_time.thrown \/ destination.thrown \/ status.thrown
    THEN RowThrown
    ELSE RenderTimed(dest_name, line_type.v, dep_time.v, destination.v, status.v,
                     TimeCalc(status.v, dep_time.v, t_now_calc), y, alt)

\* a row once val["segments"][0] has returned seg or thrown
RenderSegment(dest_name, val, seg, y, alt, t_now_calc) ==
    IF seg.thrown THEN RowThrown
    ELSE RenderFields(dest_name, value(seg.v, <<"type">>, <<>>),
                      value(val, <<"departure_time">>, TXT_NO_TIME),
                      value(seg.v, <<"destination">>, <<>>),
                      value(val, <<"status">>, <<>>), y, alt, t_now_calc)

\* the body of the loop over departure.items() for an entry with segments
RenderEntry(dest_name, val, current_row, alt, t_now_calc) ==
    RenderSegment(dest_name, val, at_0(at_key(val, <<"segments">>)),
                  row_y_positions[current_row + 1], alt, t_now_calc)

\* departure.items(): the members of an object or array, a scalar as one item
items(j) == IF j.t \in {"object", "array"} THEN j.m ELSE <<Member(<<>>, j)>>

\* the rows of an entry (e) followed by those of the entries after it
RowsThen(e, rest) ==
    [thrown |-> rest.thrown, rows |-> e.row \o rest.rows,
     cmds |-> e.cmds \o rest.cmds]

\* a loop in which an entry without segments does not use a row
RECURSIVE RowLoopSkipFree(_, _, _, _, _)
RowLoopSkipFree(els, i, current_row, alt, t_now_calc) ==
    IF i > Len(els) \/ current_row >= 2
    THEN [thrown |-> FALSE, rows |-> <<>>, cmds |-> <<>>]
    ELSE IF ~HasSegments(els[i].v)
    THEN RowLoopSkipFree(els, i + 1, current_row, alt, t_now_calc)
    ELSE IF RenderEntry(els[i].k, els[i].v, current_row, alt, t_now_calc).thrown
    THEN [thrown |-> TRUE, rows |-> <<>>, cmds |-> <<>>]
    ELSE RowsThen(RenderEntry(els[i].k, els[i].v, current_row, alt, t_now_calc),
                  RowLoopSkipFree(els, i + 1, current_row + 1, alt, t_now_calc))

\* for (auto &el : current_data.departure.items()) from element i on, with
\* current_row rows used: stops at two rows, and an entry without segments
\* uses a row and draws nothing
RECURSIVE RowLoop(_, _, _, _, _)
RowLoop(els, i, current_row, alt, t_now_calc) ==
    IF i > Len(els) \/ current_row >= 2
    THEN [thrown |-> FALSE, rows |-> <<>>, cmds |-> <<>>]
    ELSE IF ~HasSegments(els[i].v)
    THEN RowLoop(els, i + 1, current_row + 1, alt, t_now_calc)
    ELSE IF RenderEntry(els[i].k, els[i].v, current_row, alt, t_now_calc).thrown
    THEN [thrown |-> TRUE, rows |-> <<>>, cmds |-> <<>>]
    ELSE RowsThen(RenderEntry(els[i].k, els[i].v, current_row, alt, t_now_calc),
                  RowLoop(els, i + 1, current_row + 1, alt, t_now_calc))

\* step 3 of the loop body ("発車情報描画")
DepartureRows(departure_doc, alt, t_now_calc) ==
    IF ~is_null(departure_doc) /\ ~empty(departure_doc)
    THEN RowLoop(items(departure_doc), 1, 0, alt, t_now_calc)
    ELSE [thrown |-> FALSE, rows |-> <<>>, cmds |-> <<>>]

\* step 4: the clock text, "%H:%M" in odd seconds and "%H %M" in even ones
current_time_str(t_now_disp) ==
    LET tm == localtime(t_now_disp) IN
    Fmt2(tm.tm_hour) \o (IF tm.tm_sec % 2 # 0 THEN <<":">> ELSE <<" ">>)
        \o Fmt2(tm.tm_min)

\* the clock region cleared (the DrawLine of every clear_y in 22..31, kept as
\* one command from line 22 to line 31) and the clock drawn, then the two
\* separators
ClockAndLines(t_now_disp) ==
    << DrawLine(Width - 28 - 1, 22, Width, 31, ToMatrixColor(COL_BLACK)),
       DrawText(Width - 28, 31, ToMatrixColor(COL_WHITE),
                current_time_str(t_now_disp)),
       DrawLine(0, 10, Width, 10, ToMatrixColor(COL_BLACK)),
       DrawLine(0, 21, Width, 21, ToMatrixColor(COL_BLACK)) >>

\* ------------------------------------------------------------- ticker list
\* "【運転見合わせ】 "
TXT_SUSPEND == <<"[unten-miawase] ">>
\* "【遅延】 "
TXT_DELAY == <<"[chien] ">>
\* ": "
TXT_COLON == <<": ">>
\* "詳細不明"
TXT_DETAIL_UNKNOWN == <<"shousai-fumei">>
\* "不明"
TXT_UNKNOWN == <<"fumei">>
\* " 気象庁"
TXT_JMA == <<" kishouchou">>
\* "エラーが発生しています。情報が取得できていません"
TXT_ERROR == <<"error-ga-hassei">>
\* "平常運転"
TXT_NORMAL == <<"heijou-unten">>

\* "本日は MM月DD日（曜日）です" of the day of t_now
DateMessage(t_now) == <<"honjitsu-wa-" \o ToString(localtime(t_now).tm_mday)>>

\* the message of an item once its two value() calls have returned or thrown
ItemText(prefix, name, detail) ==
    [thrown |-> name.thrown \/ detail.thrown,
     msg |-> prefix \o name.v \o TXT_COLON \o detail.v]

\* the body of the loops over "suspend" and "delay": the message of an item
ItemMessage(prefix, item) ==
    ItemText(prefix, value(item, <<"name">>, <<>>),
             value(item, <<"detail">>, TXT_DETAIL_UNKNOWN))

\* the message of an item (m) followed by those of the items after it
ItemsThen(m, rest) == [thrown |-> rest.thrown, msgs |-> <<m.msg>> \o rest.msgs]

\* for (const auto &item : data.operation[key]) from element i on: one message
\* per item in the order of the array, until an item throws
RECURSIVE ItemMessages(_, _, _)
ItemMessages(prefix, els, i) ==
    IF i > Len(els) THEN [thrown |-> FALSE, msgs |-> <<>>]
    ELSE IF ItemMessage(prefix, els[i].v).thrown
    THEN [thrown |-> TRUE, msgs |-> <<>>]
    ELSE ItemsThen(ItemMessage(prefix, els[i].v), ItemMessages(prefix, els, i + 1))

\* the messages of operation[key] when operation is not null and the key is
\* there and an array
ListMessages(operation_doc, key, prefix) ==
    IF ~is_null(operation_doc) /\ contains(operation_doc, key)
       /\ is_array(at_key(operation_doc, key))
    THEN ItemMessages(prefix, at_key(operation_doc, key).m, 1)
    ELSE [thrown |-> FALSE, msgs |-> <<>>]

\* the weather message once the four value() calls have returned or thrown:
\* none when one has thrown (catch (...))
WeatherText(area, weather_txt, office, report_time) ==
    IF area.thrown \/ weather_txt.thrown \/ office.thrown \/ report_time.thrown
    THEN <<>>
    ELSE << <<"[">> \o office.v \o <<" ">> \o report_time.v \o <<"happyou]">>
            \o area.v \o <<"no-tenki: ">> \o weather_txt.v >>

\* the weather block
WeatherMessages(weather_doc) ==
    IF is_null(weather_doc) THEN <<>>
    ELSE WeatherText(value(weather_doc, <<"area_name">>, TXT_UNKNOWN),
                     value(weather_doc, <<"weather">>, TXT_UNKNOWN),
                     value(weather_doc, <<"publishing_office">>, TXT_JMA),
                     value(weather_doc, <<"report_time">>, <<" ">>))

\* an error item for a null board only, not for an empty one
ErrorMessagesNullOnly(departure_doc) ==
    IF is_null(departure_doc) THEN <<TXT_ERROR>> ELSE <<>>

\* the error item of a board that is null or empty
ErrorMessages(departure_doc) ==
    IF is_null(departure_doc) \/ empty(departure_doc) THEN <<TXT_ERROR>> ELSE <<>>

Colors(msgs, col) == [i \in 1..Len(msgs) |-> col]

\* the two lists once every block has run: the "平常運転" item goes into a
\* list that is still empty
Fallback(msgs, cols) ==
    IF Len(msgs) = 0
    THEN [thrown |-> FALSE, scroll_messages |-> <<TXT_NORMAL>>,
          scroll_colors |-> <<COL_GREEN>>]
    ELSE [thrown |-> FALSE, scroll_messages |-> msgs, scroll_colors |-> cols]

\* a list with the delays ahead of the suspensions
AssembleDelaysFirst(date, sus, del, wea, err) ==
    IF sus.thrown
    THEN [thrown |-> TRUE, scroll_messages |-> date \o sus.msgs,
          scroll_colors |-> Colors(date, COL_WHITE) \o Colors(sus.msgs, COL_RED)]
    ELSE IF del.thrown
    THEN [thrown |-> TRUE, scroll_messages |-> date \o sus.msgs \o del.msgs,
          scroll_colors |-> Colors(date, COL_WHITE) \o Colors(sus.msgs, COL_RED)
                            \o Colors(del.msgs, COL_YELLOW)]
    ELSE Fallback(date \o del.msgs \o sus.msgs \o wea \o err,
                  Colors(date, COL_WHITE) \o Colors(del.msgs, COL_YELLOW)
                      \o Colors(sus.msgs, COL_RED) \o Colors(wea, COL_WHITE)
                      \o Colors(err, COL_RED))

\* the lists from the messages of the blocks, in the order of the blocks; an
\* exception in the "suspend" or the "delay" loop leaves the function with
\* what was pushed until then
Assemble(date, sus, del, wea, err) ==
    IF sus.thrown
    THEN [thrown |-> TRUE, scroll_messages |-> date \o sus.msgs,
          scroll_colors |-> Colors(date, COL_WHITE) \o Colors(sus.msgs, COL_RED)]
    ELSE IF del.thrown
    THEN [thrown |-> TRUE, scroll_messages |-> date \o sus.msgs \o del.msgs,
          scroll_colors |-> Colors(date, COL_WHITE) \o Colors(sus.msgs, COL_RED)
                            \o Colors(del.msgs, COL_YELLOW)]
    ELSE Fallback(date \o sus.msgs \o del.msgs \o wea \o err,
                  Colors(date, COL_WHITE) \o Colors(sus.msgs, COL_RED)
                      \o Colors(del.msgs, COL_YELLOW) \o Colors(wea, COL_WHITE)
                      \o Colors(err, COL_RED))

\* void update_scroll_messages(DisplayData &data): the two lists it leaves
\* in data, and thrown when an exception leaves the function
update_scroll_messages(data, t_now) ==
    Assemble(<<DateMessage(t_now)>>,
             ListMessages(data.operation, <<"suspend">>, TXT_SUSPEND),
             ListMessages(data.operation, <<"delay">>, TXT_DELAY),
             WeatherMessages(data.weather),
             ErrorMessages(data.departure))

\* ------------------------------------------------------------- ticker step
\* an advance that sets the offset back and stays on the item
ScrolledStay(idx, msg, col, x, advance) ==
    [idx |-> idx, size |-> Len(msg), advanced |-> advance,
     cmd |-> DrawText(x, 31, ToMatrixColor(col), msg),
     msg_index |-> idx,
     scroll_x |-> IF advance THEN Width ELSE x - 1]

\* an advance that moves the index two items on
ScrolledPastNext(idx, msg, col, x, advance) ==
    [idx |-> idx, size |-> Len(msg), advanced |-> advance,
     cmd |-> DrawText(x, 31, ToMatrixColor(col), msg),
     msg_index |-> IF advance THEN idx + 2 ELSE idx,
     scroll_x |-> IF advance THEN Width ELSE x - 1]

\* the end of step 5: the item drawn at x, and the cursor after scroll_x--
\* and the test of the left edge
Scrolled(idx, msg, col, x, advance) ==
    [idx |-> idx, size |-> Len(msg), advanced |-> advance,
     cmd |-> DrawText(x, 31, ToMatrixColor(col), msg),
     msg_index |-> IF advance THEN idx + 1 ELSE idx,
     scroll_x |-> IF advance THEN Width ELSE x - 1]

\* an advance one frame early, when the text is just at the left edge
PastLeftEdgeInclusive(msg, x) == x - 1 <= -(Len(msg) * 6)

\* whether the offset after scroll_x-- is past the left edge of the text
PastLeftEdge(msg, x) == x - 1 < -(Len(msg) * 6)

\* step 5 with the index idx left by the wrap test
DrawItem(msgs, cols, idx, x) ==
    Scrolled(idx, msgs[idx + 1], cols[idx + 1], x, PastLeftEdge(msgs[idx + 1], x))

\* step 5 of the loop body on a list that is not empty: an index at or past
\* the end of the list wraps to 0
TickerStep(msgs, cols, index, x) ==
    DrawItem(msgs, cols, IF index >= Len(msgs) THEN 0 ELSE index, x)

\* ------------------------------------------------------------- state
VARIABLES
    pc,                     \* the position of main in its loop
    interrupt_received,     \* volatile bool interrupt_received
    now,                    \* auto now, in ticks of steady_clock
    t_epoch,                \* std::time(nullptr) when steady_clock read 0
    last_load_time,
    last_toggle_time,
    first_run,
    show_alternate_display,
    current_data,           \* DisplayData current_data
    scroll_x,
    msg_index,
    offscreen,              \* the draw calls of this iteration's frame
    world,                  \* what the three files may hold, and the last
                            \* steady_clock reading explored
    rows,                   \* the locals of the rows drawn in this frame
    tick,                   \* what the ticker step of this frame did
    run,                    \* the frames drawn since scroll_x was set to the width
    toggles                 \* how often the layout has been switched

vars == <<pc, interrupt_received, now, t_epoch, last_load_time, last_toggle_time,
          first_run, show_alternate_display, current_data, scroll_x, msg_index,
          offscreen, rows, tick, run, world, toggles>>

\* std::time(nullptr) in this iteration
wall == t_epoch + (now \div TicksPerSec)

\* duration_cast<std::chrono::seconds>(now - since).count()
ElapsedSeconds(since) == (now - since) \div TicksPerSec

\* const int TOGGLE_SECONDS = 5
TOGGLE_SECONDS == 5

NoTick == [from |-> 0, idx |-> 0, x |-> 0, size |-> 0, advanced |-> FALSE,
           drew |-> FALSE, frames |-> 0, clean |-> FALSE, len |-> 0]

\* ------------------------------------------------------------- documents
Segment(type, destination) ==
    JObj(<< Member(<<"destination">>, JStr(destination)),
            Member(<<"type">>, JStr(type)) >>)

Entry(dep_time, status, segs) ==
    JObj(<< Member(<<"departure_time">>, JStr(dep_time)),
            Member(<<"segments">>, JArr(segs)),
            Member(<<"status">>, JStr(status)) >>)

HHMM(h, m) == Fmt2(h) \o <<":">> \o Fmt2(m)

Item(name, detail) ==
    JObj(<< Member(<<"detail">>, JStr(detail)), Member(<<"name">>, JStr(name)) >>)

\* an item without "detail"
ItemNoDetail(name) == JObj(<< Member(<<"name">>, JStr(name)) >>)

KaiSoku == <<"kai", "soku">>

\* the documents departure.json holds in the loop: a board of one entry, and
\* a board whose departure_time is a number
BoardOne ==
    JObj(<< Member(<<"Tokyo">>,
                   Entry(HHMM(0, 20), <<>>, <<Segment(KaiSoku, <<"Tokyo">>)>>)) >>)

BoardBadTime ==
    JObj(<< Member(<<"Tokyo">>,
                   JObj(<< Member(<<"departure_time">>, JNum),
                           Member(<<"segments">>,
                                  JArr(<<Segment(KaiSoku, <<"Tokyo">>)>>)) >>)) >>)

LoopDepartures == {BoardOne, BoardBadTime}

\* the documents operation.json holds in the loop: one delay, and a "suspend"
\* array that holds a number
OperationBadItem == JObj(<< Member(<<"suspend">>, JArr(<<JNum>>)) >>)

LoopOperations ==
    {JObj(<< Member(<<"delay">>, JArr(<<Item(<<"A">>, <<"x">>)>>)) >>),
     OperationBadItem}

\* the document weather_forecast.json holds in the loop: an array
WeatherBad == JArr(<<JNum>>)

LoopWeathers == {WeatherBad}

\* the three files: each is missing, unreadable or not JSON, or holds a document
Missing == [state |-> "missing", doc |-> JNull]
Garbled == [state |-> "garbled", doc |-> JNull]
JsonFile(j) == [state |-> "json", doc |-> j]
Files(docs) == {Missing, Garbled} \cup {JsonFile(j) : j \in docs}

\* json load_json(const std::string &path): nullptr unless the file opens
\* and parses
load_json(file) == IF file.state = "json" THEN file.doc ELSE JNull

\* ------------------------------------------------------------- the loop
\* static void InterruptHandler(int signo), while the process runs
InterruptHandler ==
    /\ pc \notin {"done", "aborted"}
    /\ ~interrupt_received
    /\ interrupt_received' = TRUE
    /\ UNCHANGED <<pc, now, t_epoch, last_load_time, last_toggle_time, first_run,
                   show_alternate_display, current_data, scroll_x, msg_index,
                   offscreen, rows, tick, run, world, toggles>>

\* while (!interrupt_received) and auto now = steady_clock::now(); after the
\* loop, delete matrix and return 0
LoopTop ==
    /\ pc = "loop"
    /\ IF interrupt_received
       THEN pc' = "done" /\ now' = now
       ELSE /\ pc' = "refresh"
            /\ \E d \in 0..MaxStep : now + d <= world.clock_end /\ now' = now + d
    /\ UNCHANGED <<interrupt_received, t_epoch, last_load_time, last_toggle_time,
                   first_run, show_alternate_display, current_data, scroll_x,
                   msg_index, offscreen, rows, tick, run, world, toggles>>

\* the end of step 1: the loaded documents and the lists u of the rebuild
\* go into current_data; an exception of the rebuild ends the process
Reloaded(loaded, u) ==
    /\ current_data' =
           [departure |-> loaded.departure, operation |-> loaded.operation,
            weather |-> loaded.weather, scroll_messages |-> u.scroll_messages,
            scroll_colors |-> u.scroll_colors]
    /\ run' = [run EXCEPT !.clean =
                 @ /\ u.scroll_messages = current_data.scroll_messages]
    /\ IF u.thrown
       THEN pc' = "aborted" /\ UNCHANGED <<last_load_time, first_run>>
       ELSE pc' = "toggle" /\ last_load_time' = now /\ first_run' = FALSE

\* the three load_json calls and update_scroll_messages(current_data)
Reload(loaded) == Reloaded(loaded, update_scroll_messages(loaded, wall))

\* a refresh that waits for more than 2 whole seconds
RefreshStrict ==
    /\ pc = "refresh"
    /\ IF first_run \/ ElapsedSeconds(last_load_time) > 2
       THEN \E fd \in world.departure, fo \in world.operation,
               fw \in world.weather :
              Reload([departure |-> load_json(fd), operation |-> load_json(fo),
                      weather |-> load_json(fw)])
       ELSE pc' = "toggle"
            /\ UNCHANGED <<current_data, run, last_load_time, first_run>>
    /\ UNCHANGED <<interrupt_received, now, t_epoch, last_toggle_time,
                   show_alternate_display, scroll_x, msg_index, offscreen, rows,
                   tick, world, toggles>>

\* a refresh that restarts the ticker with every rebuild
RefreshResettingCursor ==
    /\ pc = "refresh"
    /\ IF first_run \/ ElapsedSeconds(last_load_time) >= 2
       THEN /\ \E fd \in world.departure, fo \in world.operation,
                  fw \in world.weather :
                 Reload([departure |-> load_json(fd), operation |-> load_json(fo),
                         weather |-> load_json(fw)])
            /\ msg_index' = 0
            /\ scroll_x' = Width
       ELSE pc' = "toggle"
            /\ UNCHANGED <<current_data, run, last_load_time, first_run,
                           scroll_x, msg_index>>
    /\ UNCHANGED <<interrupt_received, now, t_epoch, last_toggle_time,
                   show_alternate_display, offscreen, rows, tick, world, toggles>>

\* step 1: the three files loaded and the ticker list rebuilt, on the first
\* run and every 2 seconds
Refresh ==
    /\ pc = "refresh"
    /\ IF first_run \/ ElapsedSeconds(last_load_time) >= 2
       THEN \E fd \in world.departure, fo \in world.operation,
               fw \in world.weather :
              Reload([departure |-> load_json(fd), operation |-> load_json(fo),
                      weather |-> load_json(fw)])
       ELSE pc' = "toggle"
            /\ UNCHANGED <<current_data, run, last_load_time, first_run>>
    /\ UNCHANGED <<interrupt_received, now, t_epoch, last_toggle_time,
                   show_alternate_display, scroll_x, msg_index, offscreen, rows,
                   tick, world, toggles>>

\* a switch that waits for more than TOGGLE_SECONDS whole seconds
ToggleStrict ==
    /\ pc = "toggle"
    /\ IF ElapsedSeconds(last_toggle_time) > TOGGLE_SECONDS
       THEN show_alternate_display' = ~show_alternate_display
            /\ last_toggle_time' = now
            /\ toggles' = toggles + 1
       ELSE UNCHANGED <<show_alternate_display, last_toggle_time, toggles>>
    /\ pc' = "rows"
    /\ UNCHANGED <<interrupt_received, now, t_epoch, last_load_time, first_run,
                   current_data, scroll_x, msg_index, offscreen, rows, tick, run,
                   world>>

\* the layout switch ("描画切替"), every TOGGLE_SECONDS seconds
Toggle ==
    /\ pc = "toggle"
    /\ IF ElapsedSeconds(last_toggle_time) >= TOGGLE_SECONDS
       THEN show_alternate_display' = ~show_alternate_display
            /\ last_toggle_time' = now
            /\ toggles' = toggles + 1
       ELSE UNCHANGED <<show_alternate_display, last_toggle_time, toggles>>
    /\ pc' = "rows"
    /\ UNCHANGED <<interrupt_received, now, t_epoch, last_load_time, first_run,
                   current_data, scroll_x, msg_index, offscreen, rows, tick, run,
                   world>>

\* the end of step 3: the rows r are on the canvas, or an exception of a
\* row ends the process
RowsDrawn(r) ==
    /\ offscreen' = r.cmds
    /\ rows' = r.rows
    /\ pc' = IF r.thrown THEN "aborted" ELSE "ticker"

\* steps 2 and 3: offscreen->Fill(0, 0, 0) and the departure rows
DrawRows ==
    /\ pc = "rows"
    /\ RowsDrawn(DepartureRows(current_data.departure, show_alternate_display, wall))
    /\ UNCHANGED <<interrupt_received, now, t_epoch, last_load_time,
                   last_toggle_time, first_run, show_alternate_display,
                   current_data, scroll_x, msg_index, tick, run, world, toggles>>

\* the end of step 5: the ticker step t has drawn its item and moved the
\* cursor; the clock and the separators are drawn after it
TickerDrawn(t) ==
    /\ msg_index' = t.msg_index
    /\ scroll_x' = t.scroll_x
    /\ offscreen' = offscreen \o <<t.cmd>> \o ClockAndLines(wall)
    /\ tick' = [from |-> msg_index, idx |-> t.idx, x |-> scroll_x,
                size |-> t.size, advanced |-> t.advanced, drew |-> TRUE,
                frames |-> run.frames + 1, clean |-> run.clean,
                len |-> Len(current_data.scroll_messages)]
    /\ run' = IF t.advanced THEN [frames |-> 0, clean |-> TRUE]
              ELSE [run EXCEPT !.frames = @ + 1]

\* steps 4 and 5 and the drawing after them: the ticker item, the clock and
\* the separators
DrawTicker ==
    /\ pc = "ticker"
    /\ IF Len(current_data.scroll_messages) # 0
       THEN TickerDrawn(TickerStep(current_data.scroll_messages,
                                   current_data.scroll_colors, msg_index, scroll_x))
       ELSE /\ offscreen' = offscreen \o ClockAndLines(wall)
            /\ tick' = NoTick
            /\ UNCHANGED <<msg_index, scroll_x, run>>
    /\ pc' = "swap"
    /\ UNCHANGED <<interrupt_received, now, t_epoch, last_load_time,
                   last_toggle_time, first_run, show_alternate_display,
                   current_data, rows, world, toggles>>

\* step 6: offscreen = matrix->SwapOnVSync(offscreen); the frame handed over
\* stays in offscreen until the end of the iteration
Swap ==
    /\ pc = "swap"
    /\ pc' = "sleep"
    /\ UNCHANGED <<interrupt_received, now, t_epoch, last_load_time,
                   last_toggle_time, first_run, show_alternate_display,
                   current_data, scroll_x, msg_index, offscreen, rows, tick, run, world, toggles>>

\* sleep_for(20 ms), the end of the loop body: its locals are gone, and the
\* canvas that came back from SwapOnVSync is filled before it is drawn on
Sleep ==
    /\ pc = "sleep"
    /\ pc' = "loop"
    /\ rows' = <<>>
    /\ tick' = NoTick
    /\ offscreen' = <<>>
    /\ UNCHANGED <<interrupt_received, now, t_epoch, last_load_time,
                   last_toggle_time, first_run, show_alternate_display,
                   current_data, scroll_x, msg_index, run, world, toggles>>

NoData ==
    [departure |-> JNull, operation |-> JNull, weather |-> JNull,
     scroll_messages |-> <<>>, scroll_colors |-> <<>>]

\* 08:00:00 of day 1
LoopEpoch == 86400 + 8 * 3600

\* main before its first test of the loop condition
Start ==
    /\ interrupt_received = FALSE
    /\ now = 0
    /\ last_load_time = 0
    /\ last_toggle_time = 0
    /\ first_run = TRUE
    /\ show_alternate_display = FALSE
    /\ current_data = NoData
    /\ scroll_x = Width
    /\ msg_index = 0
    /\ offscreen = <<>>
    /\ rows = <<>>
    /\ tick = NoTick
    /\ run = [frames |-> 0, clean |-> TRUE]
    /\ toggles = 0

\* the runs explored: the three files change between refreshes over a short
\* time, or stay missing over a long one
Worlds ==
    { [departure |-> Files(LoopDepartures), operation |-> Files(LoopOperations),
       weather |-> Files(LoopWeathers), clock_end |-> ScrollClock],
      [departure |-> {Missing}, operation |-> {Missing}, weather |-> {Missing},
       clock_end |-> MaxClock] }

Init == Start /\ pc = "loop" /\ t_epoch = LoopEpoch /\ world \in Worlds

Next ==
    \/ InterruptHandler
    \/ LoopTop
    \/ Refresh
    \/ Toggle
    \/ DrawRows
    \/ DrawTicker
    \/ Swap
    \/ Sleep

Spec == Init /\ [][Next]_vars

\* ------------------------------------------------------------- progress
\* main is one thread of straight-line code: a step of the loop that can be
\* taken is taken
MainStep ==
    \/ LoopTop
    \/ Refresh
    \/ Toggle
    \/ DrawRows
    \/ DrawTicker
    \/ Swap
    \/ Sleep

\* the last steady_clock reading explored, in ticks: the time of one refresh
\* after the first; the loop goes on after it with the clock at rest
LiveClock == 4

\* operation.json is missing or holds one delay, and changes between
\* refreshes; the other two files are missing
LiveWorlds ==
    { [departure |-> {Missing},
       operation |-> {Missing,
                      JsonFile(JObj(<< Member(<<"delay">>,
                                              JArr(<<Item(<<"A">>, <<"x">>)>>)) >>))},
       weather |-> {Missing}, clock_end |-> LiveClock] }

InitLive == Start /\ pc = "loop" /\ t_epoch = LoopEpoch /\ world \in LiveWorlds

SpecLive == InitLive /\ [][Next]_vars /\ WF_vars(MainStep)

\* ------------------------------------------------------------- rows alone
\* The countdown of a row over chosen departure times and times of day: the
\* loop from its start to the rows of its first frame, with departure.json
\* holding one board and the clock of the machine at a chosen time.
DepHours == {0, 2, 3, 8, 9, 23}
DepMins == {0, 15, 17, 20, 39, 59}
NowHours == {0, 2, 3, 8, 23}
NowMins == {0, 1, 59}
NowSecs == {0, 1, 30, 59}

\* a time of day 1
DayTime(h, m, sec) == 86400 + h * 3600 + m * 60 + sec

RowTimes == {DayTime(h, m, sec) : h \in NowHours, m \in NowMins, sec \in NowSecs}

BoardOf(dep_time, status) ==
    JObj(<< Member(<<"Tokyo">>,
                   Entry(dep_time, status, <<Segment(KaiSoku, <<"Tokyo">>)>>)) >>)

RowBoards ==
    {BoardOf(HHMM(h, m), <<>>) : h \in DepHours, m \in DepMins}
    \cup {BoardOf(TXT_NO_TIME, <<>>), BoardOf(HHMM(8, 15), TXT_FIRST),
          BoardOf(HHMM(8, 15), TXT_LAST)}

InitRows ==
    /\ Start
    /\ pc = "refresh"
    /\ t_epoch \in RowTimes
    /\ world \in {[departure |-> {JsonFile(b)}, operation |-> {Missing},
                   weather |-> {Missing}, clock_end |-> 0] : b \in RowBoards}

NextRows ==
    \/ Refresh
    \/ Toggle
    \/ DrawRows

SpecRows == InitRows /\ [][NextRows]_vars

\* ------------------------------------------------------------- rebuild alone
\* update_scroll_messages over the documents the three files can hold: the
\* first refresh of the loop, each file holding one chosen content.
\* the longest "suspend" and "delay" arrays
MaxItems == 2

ItemPool == {Item(<<"A">>, <<"x">>), ItemNoDetail(<<"B">>), JNum}

ItemLists == UNION {[1..n -> ItemPool] : n \in 0..MaxItems}

\* what operation.json holds under "suspend" or "delay": nothing, a number,
\* or an array of items
ListFields(key) ==
    {<<>>, <<Member(key, JNum)>>} \cup {<<Member(key, JArr(l))>> : l \in ItemLists}

ComposeOperations ==
    {JNum} \cup {JObj(d \o u) : d \in ListFields(<<"delay">>),
                                u \in ListFields(<<"suspend">>)}

ComposeDepartures == {JObj(<<>>), JArr(<<>>), JNum, BoardOne}

WeatherFull ==
    JObj(<< Member(<<"area_name">>, JStr(<<"Tokyo">>)),
            Member(<<"publishing_office">>, JStr(<<"JMA">>)),
            Member(<<"report_time">>, JStr(<<"5">>)),
            Member(<<"weather">>, JStr(<<"hare">>)) >>)

WeatherBadField == JObj(<< Member(<<"weather">>, JNum) >>)

ComposeWeathers == {WeatherFull, JObj(<<>>), WeatherBad, WeatherBadField}

InitCompose ==
    /\ Start
    /\ pc = "refresh"
    /\ t_epoch = LoopEpoch
    /\ world \in {[departure |-> {fd}, operation |-> {fo}, weather |-> {fw},
                   clock_end |-> 0] :
                  fd \in Files(ComposeDepartures), fo \in Files(ComposeOperations),
                  fw \in Files(ComposeWeathers)}

SpecCompose == InitCompose /\ [][Refresh]_vars

\* ------------------------------------------------------------- boards
\* The rows of the first frame over boards of up to MaxEntries entries, in
\* both layouts: last_toggle_time is set when the program is loaded, now is
\* read in the loop, and main sets up the matrix and the font in between.
\* the most entries of a board
MaxEntries == 3

\* an entry without "departure_time"
EntryNoTime(status, segs) ==
    JObj(<< Member(<<"segments">>, JArr(segs)), Member(<<"status">>, JStr(status)) >>)

\* an entry without "segments"
EntryNoSegments ==
    JObj(<< Member(<<"departure_time">>, JStr(HHMM(8, 15))),
            Member(<<"status">>, JStr(<<>>)) >>)

SegTokyo == Segment(KaiSoku, <<"Tokyo">>)
SegChiba == Segment(<<"futsuu">>, <<"Chiba">>)

BoardStatuses == {<<>>, TXT_FIRST, TXT_LAST}

\* departure_time strings: three that parse and three that do not
BoardDepTimes ==
    {HHMM(8, 15), HHMM(8, 30), HHMM(23, 59), TXT_NO_TIME, <<"a", "b">>, <<"8", ":">>}

\* boards of one entry, of every status and departure_time
StatusBoards ==
    {JObj(<< Member(<<"A">>, Entry(d, st, <<SegTokyo>>)) >>) :
         d \in BoardDepTimes, st \in BoardStatuses}
    \cup {JObj(<< Member(<<"A">>, EntryNoTime(st, <<SegTokyo>>)) >>) :
              st \in BoardStatuses}

\* the entries of the longer boards: two that are drawn with a countdown,
\* two whose time does not parse, and four that are not drawn
EntryPool ==
    {Entry(HHMM(8, 15), <<>>, <<SegTokyo, SegChiba>>),
     Entry(HHMM(8, 30), <<>>, <<SegChiba>>),
     Entry(TXT_NO_TIME, <<>>, <<SegTokyo>>),
     EntryNoTime(<<>>, <<SegChiba>>),
     Entry(HHMM(8, 15), <<>>, <<>>),
     EntryNoSegments, JNull, JNum}

EntryKeys == << <<"A">>, <<"B">>, <<"C">>, <<"D">>, <<"E">> >>

\* an object of the entries es under the keys A, B, C, ...: items() goes through
\* an object in the order of its keys
BoardOfEntries(es) == JObj([i \in 1..Len(es) |-> Member(EntryKeys[i], es[i])])

EntryBoards ==
    {BoardOfEntries(es) : es \in UNION {[1..n -> EntryPool] : n \in 1..MaxEntries}}
    \cup {JArr(es) : es \in [1..MaxEntries -> EntryPool]}

\* the time of day when the loop starts
BoardTimes == {DayTime(8, 0, 0), DayTime(8, 0, 30), DayTime(8, 14, 0), DayTime(23, 0, 0)}

\* the ticks between the load of the program and the first pass of the loop
SetupTicks == {0, TOGGLE_SECONDS * TicksPerSec}

InitBoard ==
    /\ pc = "refresh"
    /\ interrupt_received = FALSE
    /\ now \in SetupTicks
    /\ last_load_time = now
    /\ last_toggle_time = 0
    /\ first_run = TRUE
    /\ show_alternate_display = FALSE
    /\ current_data = NoData
    /\ scroll_x = Width
    /\ msg_index = 0
    /\ offscreen = <<>>
    /\ rows = <<>>
    /\ tick = NoTick
    /\ run = [frames |-> 0, clean |-> TRUE]
    /\ toggles = 0
    /\ t_epoch \in BoardTimes
    /\ world \in {[departure |-> {JsonFile(b)}, operation |-> {Missing},
                   weather |-> {Missing}, clock_end |-> 0] :
                  b \in StatusBoards \cup EntryBoards}

NextBoard ==
    \/ Refresh
    \/ Toggle
    \/ DrawRows

SpecBoard == InitBoard /\ [][NextBoard]_vars

\* ------------------------------------------------------------- properties
\* the first frame of SpecRows has drawn its one row
RowDone == pc = "ticker" /\ Len(rows) = 1

\* the hour of the day of a time
HourOf(t) == (t % 86400) \div 3600

\* C1: for a departure time HH:MM and any current time, the candidate
\* departure is HH:MM:00 of the next day if and only if HH < 3 and the
\* current hour is at least 3, and HH:MM:00 of the current day otherwise.
C1_Rollover ==
    RowDone /\ rows[1].parsed =>
        \A h \in 0..23, m \in 0..59 :
            rows[1].dep_time = HHMM(h, m) =>
                rows[1].t_dep =
                    ((wall \div 86400) + (IF h < 3 /\ HourOf(wall) >= 3 THEN 1 ELSE 0))
                        * 86400 + h * 3600 + m * 60

\* a departure at 02:59 seen at 03:00:00 is a departure of the next day
C1_Witness ==
    /\ RowDone
    /\ rows[1].dep_time = HHMM(2, 59)
    /\ wall = DayTime(3, 0, 0)
    /\ rows[1].t_dep = 2 * 86400 + 2 * 3600 + 59 * 60

\* C2: minutes_until is floor((candidate - now) / 60) + 1, also for a
\* candidate in the past.
C2_FloorMinutes ==
    RowDone /\ rows[1].parsed =>
        rows[1].diff_minutes = ((rows[1].t_dep - wall) \div 60) + 1

\* C3: without a first-train or last-train status the countdown is red up to
\* 17 minutes, yellow from 18 to 20, green from 21 to 99, and the blue
\* first-train label from 100 on; 08:15 seen at 08:00:00 is 16 minutes, red.
C3_Tier ==
    RowDone /\ rows[1].parsed =>
        /\ rows[1].diff_minutes <= 17 =>
               /\ rows[1].time_col = ToMatrixColor(COL_RED)
               /\ rows[1].time_text = to_string(rows[1].diff_minutes) \o TXT_MIN_LATER
        /\ rows[1].diff_minutes \in 18..20 =>
               /\ rows[1].time_col = ToMatrixColor(COL_YELLOW)
               /\ rows[1].time_text = to_string(rows[1].diff_minutes) \o TXT_MIN_LATER
        /\ rows[1].diff_minutes \in 21..99 =>
               /\ rows[1].time_col = ToMatrixColor(COL_GREEN)
               /\ rows[1].time_text = to_string(rows[1].diff_minutes) \o TXT_MIN_LATER
        /\ rows[1].diff_minutes >= 100 =>
               /\ rows[1].time_col = ToMatrixColor(COL_BLUE)
               /\ rows[1].time_text = TXT_FIRST
        /\ rows[1].dep_time = HHMM(8, 15) /\ wall = DayTime(8, 0, 0) =>
               /\ rows[1].diff_minutes = 16
               /\ rows[1].time_col = ToMatrixColor(COL_RED)

\* 08:15 seen at 08:00:00: 16 minutes, drawn in red
C3_Witness ==
    /\ RowDone
    /\ rows[1].parsed
    /\ rows[1].dep_time = HHMM(8, 15)
    /\ wall = DayTime(8, 0, 0)
    /\ rows[1].diff_minutes = 16
    /\ rows[1].time_col = ToMatrixColor(COL_RED)

\* the first refresh of SpecCompose has rebuilt the list
Rebuilt == pc = "toggle"

\* the suspensions or delays of an operation document, in document order
ListOf(doc, key) ==
    IF contains(doc, key) /\ is_array(at_key(doc, key)) THEN at_key(doc, key).m
    ELSE <<>>

\* a weather document that is a report
HasReport(doc) ==
    /\ doc.t = "object"
    /\ \A i \in 1..Len(doc.m) :
           doc.m[i].k \in {<<"area_name">>, <<"weather">>, <<"publishing_office">>,
                           <<"report_time">>}
               => doc.m[i].v.t = "string"

\* a board that is null or has no entry
BoardAbsent(doc) ==
    doc.t = "null" \/ (doc.t \in {"object", "array"} /\ Len(doc.m) = 0)

\* msg is the message of the list item el: the prefix, then the item's name
IsItemMessage(msg, prefix, el) ==
    /\ SubSeq(msg, 1, Len(prefix)) = prefix
    /\ contains(el.v, <<"name">>) =>
           SubSeq(msg, Len(prefix) + 1, Len(prefix) + Len(at_key(el.v, <<"name">>).s))
               = at_key(el.v, <<"name">>).s

Count(msgs, m) == Cardinality({i \in 1..Len(msgs) : msgs[i] = m})

NumSuspend == Len(ListOf(current_data.operation, <<"suspend">>))
NumDelay == Len(ListOf(current_data.operation, <<"delay">>))
NumWeather == IF HasReport(current_data.weather) THEN 1 ELSE 0
NumError == IF BoardAbsent(current_data.departure) THEN 1 ELSE 0

\* C4: with no suspension, no delay and no weather report and a board that
\* is not empty, the list is the single green item "平常運転".
C4_NormalOnly ==
    Rebuilt /\ NumSuspend = 0 /\ NumDelay = 0 /\ NumWeather = 0 /\ NumError = 0 =>
        /\ current_data.scroll_messages = <<TXT_NORMAL>>
        /\ current_data.scroll_colors = <<COL_GREEN>>

\* C5: the list is the date item (white), one item per suspension in document
\* order (red), one item per delay in document order (yellow), the weather
\* item if there is a report (white), then the fallback: the error item
\* (red) for a board that is null or empty, and the item "平常運転" only as
\* the one item of a list that had no other; the colour list is as long.
C5_Order ==
    Rebuilt =>
        /\ Len(current_data.scroll_messages)
               = 1 + NumSuspend + NumDelay + NumWeather + NumError
        /\ Len(current_data.scroll_colors) = Len(current_data.scroll_messages)
        /\ current_data.scroll_messages[1] = DateMessage(wall)
        /\ current_data.scroll_colors[1] = COL_WHITE
        /\ \A i \in 1..NumSuspend :
               /\ IsItemMessage(current_data.scroll_messages[1 + i], TXT_SUSPEND,
                                ListOf(current_data.operation, <<"suspend">>)[i])
               /\ current_data.scroll_colors[1 + i] = COL_RED
        /\ \A i \in 1..NumDelay :
               /\ IsItemMessage(current_data.scroll_messages[1 + NumSuspend + i],
                                TXT_DELAY,
                                ListOf(current_data.operation, <<"delay">>)[i])
               /\ current_data.scroll_colors[1 + NumSuspend + i] = COL_YELLOW
        /\ NumWeather = 1 =>
               /\ current_data.scroll_messages[2 + NumSuspend + NumDelay][1] = "["
               /\ current_data.scroll_colors[2 + NumSuspend + NumDelay] = COL_WHITE
        /\ NumError = 1 =>
               /\ current_data.scroll_messages[Len(current_data.scroll_messages)]
                      = TXT_ERROR
               /\ current_data.scroll_colors[Len(current_data.scroll_messages)]
                      = COL_RED
        /\ Count(current_data.scroll_messages, TXT_NORMAL) > 0 =>
               Len(current_data.scroll_messages) = 1

\* two suspensions and two delays of different names, a report and no board
C5_Witness ==
    /\ Rebuilt
    /\ NumSuspend = 2 /\ NumDelay = 2 /\ NumWeather = 1 /\ NumError = 1
    /\ ListOf(current_data.operation, <<"suspend">>)[1].v
           # ListOf(current_data.operation, <<"suspend">>)[2].v
    /\ ListOf(current_data.operation, <<"delay">>)[1].v
           # ListOf(current_data.operation, <<"delay">>)[2].v
    /\ Len(current_data.scroll_messages) = 7

\* C6: after a rebuild with a board that is null or empty the error message
\* is in the list exactly once, in red, next to all the other items; with a
\* board that is not empty it is not in the list.
C6_Error ==
    Rebuilt =>
        IF BoardAbsent(current_data.departure)
        THEN /\ Count(current_data.scroll_messages, TXT_ERROR) = 1
             /\ \A i \in 1..Len(current_data.scroll_messages) :
                    current_data.scroll_messages[i] = TXT_ERROR =>
                        current_data.scroll_colors[i] = COL_RED
             /\ Len(current_data.scroll_messages)
                    = 2 + NumSuspend + NumDelay + NumWeather
        ELSE Count(current_data.scroll_messages, TXT_ERROR) = 0

\* a board {} with a suspension and a weather report: the error item is there
C6_Witness ==
    /\ Rebuilt
    /\ current_data.departure = JObj(<<>>)
    /\ NumSuspend = 1 /\ NumWeather = 1
    /\ Count(current_data.scroll_messages, TXT_ERROR) = 1
    /\ Len(current_data.scroll_messages) = 4

\* C7 as stated: an item of width W = 6 * size is drawn for exactly
\* Width + W frames before the cursor advances.
C7_WidthPlusW ==
    tick.drew /\ tick.advanced /\ tick.clean =>
        tick.frames = Width + 6 * tick.size

\* C7, amended: with the list unchanged an item of width W = 6 * size is
\* drawn for exactly Width + W + 1 frames, at the offsets Width down to -W;
\* then the index moves to the next item and the offset is Width again, and
\* an index at the end of the list draws the first item.
C7_ScrollRun ==
    /\ tick.drew /\ tick.advanced /\ tick.clean =>
           /\ tick.frames = Width + 6 * tick.size + 1
           /\ tick.x = -(6 * tick.size)
    /\ tick.drew /\ tick.advanced => msg_index = tick.idx + 1 /\ scroll_x = Width
    /\ tick.drew /\ ~tick.advanced /\ tick.clean =>
           /\ tick.frames <= Width + 6 * tick.size
           /\ msg_index = tick.idx
    /\ tick.drew /\ tick.from = tick.len => tick.idx = 0

\* the last item of a list of several, unchanged since the item came in, has
\* left the panel: the index is at the end of the list
C7_Witness ==
    /\ tick.drew /\ tick.advanced /\ tick.clean
    /\ tick.len >= 2 /\ tick.idx = tick.len - 1
    /\ tick.size >= 1
    /\ msg_index = tick.len

\* C8: the refresh leaves msg_index and scroll_x as they are, and so does
\* every step but the ticker step; the ticker step draws the item at the
\* index it finds, and the first item when the list has become shorter than
\* that index.
C8_CursorOwner ==
    /\ [][pc # "ticker" => msg_index' = msg_index /\ scroll_x' = scroll_x]_vars
    /\ [](tick.drew =>
            /\ tick.from < tick.len => tick.idx = tick.from
            /\ tick.from > tick.len => tick.idx = 0)

\* a refresh has left fewer items than the index: the first item is drawn
C8_Witness == tick.drew /\ tick.from > tick.len /\ tick.idx = 0

\* C9: the layout starts as the primary one; the toggle step switches it if
\* and only if at least 5 whole seconds have passed since the last switch,
\* and then restarts the timer at now; no other step, the refresh included,
\* writes the layout or its timer, and the toggle step leaves the data, the
\* ticker list and the refresh timer alone. The layout is the alternate one
\* after an odd number of switches.
C9_Toggle ==
    /\ [](show_alternate_display <=> toggles % 2 = 1)
    /\ [][/\ pc = "toggle" /\ pc' = "rows" =>
                IF now - last_toggle_time >= 5 * TicksPerSec
                THEN /\ show_alternate_display' = ~show_alternate_display
                     /\ last_toggle_time' = now
                     /\ toggles' = toggles + 1
                ELSE UNCHANGED <<show_alternate_display, last_toggle_time, toggles>>
          /\ ~(pc = "toggle" /\ pc' = "rows") =>
                UNCHANGED <<show_alternate_display, last_toggle_time, toggles>>
          /\ pc = "toggle" =>
                UNCHANGED <<current_data, last_load_time, first_run>>]_vars

\* the third switch in a row: primary, alternate, primary, alternate
C9_Witness == toggles = 3 /\ show_alternate_display /\ last_toggle_time = now

\* C10: whatever the three files hold, the loop does not abort, and the
\* frame it hands over has the ticker item and the clock.
C10_Degrades ==
    /\ pc # "aborted"
    /\ pc = "swap" =>
           /\ \E i \in 1..Len(offscreen) :
                  offscreen[i].op = "text" /\ offscreen[i].y = 31
                      /\ offscreen[i].x = tick.x
           /\ \E i \in 1..Len(offscreen) :
                  offscreen[i].op = "text" /\ offscreen[i].x = Width - 28

\* C11: the loop tests the shutdown request once in each iteration and
\* leaves with the display released and status 0 only when it is set; a
\* frame in flight when the request arrives is not handed over to
\* SwapOnVSync, and no frame is handed over once the request was seen.
C11_NoHandoff ==
    [][/\ pc = "swap" /\ pc' = "sleep" => ~interrupt_received
       /\ pc' = "done" => pc = "loop" /\ interrupt_received
       /\ pc = "done" => pc' = "done"]_vars

\* the tier of a drawn row, by the rules of the countdown
TierOf(row) ==
    IF row.status = TXT_FIRST THEN "FIRST_TRAIN"
    ELSE IF row.status = TXT_LAST THEN "LAST_TRAIN"
    ELSE IF ~row.parsed THEN "UNKNOWN"
    ELSE IF row.diff_minutes > 99 THEN "FIRST_TRAIN"
    ELSE IF row.diff_minutes <= 17 THEN "CRITICAL"
    ELSE IF row.diff_minutes <= 20 THEN "WARNING"
    ELSE "NORMAL"

\* C12: in the primary layout the text on the right of a row is the phrase
\* "駅まで走れ" in red for the tier CRITICAL, "今すぐ出発" in yellow for the
\* tier WARNING, and for every other tier the destination in orange.
C12_Substitute ==
    \A i \in 1..Len(rows) :
        ~rows[i].alt =>
            IF TierOf(rows[i]) = "CRITICAL"
            THEN rows[i].dest_text = TXT_RUN
                     /\ rows[i].dest_col = ToMatrixColor(COL_RED)
            ELSE IF TierOf(rows[i]) = "WARNING"
            THEN rows[i].dest_text = TXT_LEAVE_NOW
                     /\ rows[i].dest_col = ToMatrixColor(COL_YELLOW)
            ELSE rows[i].dest_text = rows[i].destination
                     /\ rows[i].dest_col = ToMatrixColor(COL_ORANGE)

\* the rows of the first frame of SpecBoard are drawn
RowsDone == pc = "ticker"

\* C13: an entry whose status is "始発" shows the label "始発" in blue and
\* one whose status is "終電" the label "終電" in red, whatever its
\* departure_time holds (a time, no time, or no such field) and whatever the
\* time of day; no time is computed for the row.
C13_FixedLabel ==
    \A i \in 1..Len(rows) :
        /\ rows[i].status = TXT_FIRST =>
               /\ rows[i].time_text = TXT_FIRST
               /\ rows[i].time_col = ToMatrixColor(COL_BLUE)
               /\ ~rows[i].parsed
        /\ rows[i].status = TXT_LAST =>
               /\ rows[i].time_text = TXT_LAST
               /\ rows[i].time_col = ToMatrixColor(COL_RED)
               /\ ~rows[i].parsed

\* the first train of 08:15 seen at 08:00:00, which would be 16 minutes away
C13_Witness ==
    /\ RowsDone /\ Len(rows) = 1
    /\ rows[1].status = TXT_FIRST
    /\ rows[1].dep_time = HHMM(8, 15)
    /\ wall = DayTime(8, 0, 0)
    /\ rows[1].time_text = TXT_FIRST
    /\ rows[1].time_col = ToMatrixColor(COL_BLUE)

\* the countdown of the drawn row as a later time of day would compute it
LaterCountdown(later) == TimeCalc(rows[1].status, rows[1].dep_time, later)

\* C14: for a departure time and two times of day, the second not before the
\* first, that give the same candidate departure, the minutes computed at
\* the second are not more than the minutes computed at the first.
C14_Monotone ==
    RowDone /\ rows[1].parsed =>
        \A later \in RowTimes :
            later >= wall /\ LaterCountdown(later).t_dep = rows[1].t_dep =>
                LaterCountdown(later).diff_minutes <= rows[1].diff_minutes

\* 08:15 seen at 08:00:00 is 16 minutes; seen at 08:01:30 it is 14, and seen
\* at 08:59:59, after the departure, it is -43
C14_Witness ==
    /\ RowDone /\ rows[1].parsed
    /\ rows[1].dep_time = HHMM(8, 15)
    /\ wall = DayTime(8, 0, 0)
    /\ rows[1].diff_minutes = 16
    /\ LaterCountdown(DayTime(8, 1, 30)).t_dep = rows[1].t_dep
    /\ LaterCountdown(DayTime(8, 1, 30)).diff_minutes = 14
    /\ LaterCountdown(DayTime(8, 59, 59)).diff_minutes = -43

\* C19: a row that shows a number of minutes "N分後" shows 1 <= N <= 99.
C19_Range ==
    \A i \in 1..Len(rows) :
        rows[i].parsed /\ rows[i].time_text # TXT_FIRST =>
            /\ rows[i].time_text = to_string(rows[i].diff_minutes) \o TXT_MIN_LATER
            /\ 1 <= rows[i].diff_minutes
            /\ rows[i].diff_minutes <= 99

\* the order of the steps of an iteration, and the ways out of the loop
StepOrder ==
    {<<"loop", "refresh">>, <<"refresh", "toggle">>, <<"toggle", "rows">>,
     <<"rows", "ticker">>, <<"ticker", "swap">>, <<"swap", "sleep">>,
     <<"sleep", "loop">>, <<"loop", "done">>, <<"refresh", "aborted">>,
     <<"rows", "aborted">>}

\* C15: the steps of an iteration come in the order refresh, toggle, rows and
\* ticker, handoff, sleep. The refresh step reloads on the first iteration
\* and then exactly when at least 2 whole seconds have passed since the last
\* reload; a reload replaces the three documents by what the files hold and
\* the ticker list by the rebuild from them, and restarts the refresh timer;
\* no other step writes the documents, the list or the timer.
C15_Cadence ==
    [][/\ pc' # pc => <<pc, pc'>> \in StepOrder
       /\ pc = "refresh" /\ pc' = "toggle" =>
              IF first_run \/ now - last_load_time >= 2 * TicksPerSec
              THEN /\ last_load_time' = now
                   /\ ~first_run'
                   /\ current_data'.departure \in {load_json(f) : f \in world.departure}
                   /\ current_data'.operation \in {load_json(f) : f \in world.operation}
                   /\ current_data'.weather \in {load_json(f) : f \in world.weather}
                   /\ current_data'.scroll_messages
                          = update_scroll_messages(current_data', wall).scroll_messages
                   /\ current_data'.scroll_colors
                          = update_scroll_messages(current_data', wall).scroll_colors
              ELSE UNCHANGED <<current_data, last_load_time, first_run>>
       /\ pc = "refresh" /\ pc' = "aborted" =>
              first_run \/ now - last_load_time >= 2 * TicksPerSec
       /\ ~(pc = "refresh" /\ pc' # pc) =>
              UNCHANGED <<current_data, last_load_time, first_run>>]_vars

\* a second reload, 2 seconds or more after the first, has brought a board
C15_Witness ==
    /\ pc = "toggle"
    /\ ~first_run
    /\ last_load_time = now
    /\ now >= 2 * TicksPerSec
    /\ ~is_null(current_data.departure)
    /\ Len(current_data.scroll_messages) >= 2

\* a string that starts with digits, a colon and a digit
HasHourAndMinute(str) ==
    \E i \in 2..Len(str) - 1 :
        /\ str[i] = ":"
        /\ \A j \in 1..i - 1 : IsDigit(str[j])
        /\ IsDigit(str[i + 1])

\* the countdown of row i as its own entry and the time of day give it
OwnCountdown(i) == TimeCalc(rows[i].status, rows[i].dep_time, wall)

\* C16: a row without a first-train or last-train status whose
\* departure_time is not a time (or is missing and taken as "--:--") shows
\* "--:--" and, in the primary layout, its destination in orange; the frame
\* is drawn without an error, and every row shows what its own entry gives,
\* whatever the other entries hold.
C16_Unparsed ==
    /\ pc # "aborted"
    /\ \A i \in 1..Len(rows) :
           /\ rows[i].status \notin {TXT_FIRST, TXT_LAST}
                  /\ ~HasHourAndMinute(rows[i].dep_time) =>
                  /\ rows[i].time_text = TXT_NO_TIME
                  /\ ~rows[i].alt =>
                         /\ rows[i].dest_text = rows[i].destination
                         /\ rows[i].dest_col = ToMatrixColor(COL_ORANGE)
           /\ rows[i].time_text = OwnCountdown(i).time_text
           /\ rows[i].time_col = OwnCountdown(i).time_col
           /\ rows[i].dep_time = HHMM(8, 15) /\ rows[i].status = <<>>
                  /\ wall = DayTime(8, 0, 0) =>
                  /\ rows[i].time_text = <<"1", "6">> \o TXT_MIN_LATER
                  /\ rows[i].time_col = ToMatrixColor(COL_RED)

\* an entry without departure_time ahead of the 08:15 seen at 08:00:00: the
\* first row shows "--:--" and its destination, the second 16 minutes in red
C16_Witness ==
    /\ RowsDone /\ Len(rows) = 2
    /\ contains(current_data.departure, <<"A">>)
    /\ ~contains(at_key(current_data.departure, <<"A">>), <<"departure_time">>)
    /\ rows[1].time_text = TXT_NO_TIME
    /\ ~rows[1].alt
    /\ rows[1].dest_text = <<"Chiba">>
    /\ rows[2].dep_time = HHMM(8, 15)
    /\ wall = DayTime(8, 0, 0)
    /\ rows[2].time_text = <<"1", "6">> \o TXT_MIN_LATER
    /\ rows[2].dest_text = TXT_RUN

\* an entry that has a first segment
Drawable(val) ==
    contains(val, <<"segments">>) /\ Len(at_key(val, <<"segments">>).m) >= 1

\* the places, among the first two of the board, of the entries drawn
DrawnSlots ==
    {j \in 1..Len(current_data.departure.m) :
         j <= 2 /\ Drawable(current_data.departure.m[j].v)}

\* the number of the row that shows the entry at place j
RowOfSlot(j) == Cardinality({x \in DrawnSlots : x <= j})

FirstSegment(val) == at_key(val, <<"segments">>).m[1].v

\* C17: a frame has at most two rows. The rows are the entries with a first
\* segment among the first two entries of the board, in the order of
\* iteration; each shows the type and the destination of its first segment
\* at the height of its place, 9 for the first entry and 20 for the second,
\* so an entry that is not drawn keeps its place, and no entry after the
\* second is drawn.
C17_TwoRows ==
    /\ Len(rows) <= 2
    /\ RowsDone =>
           /\ Len(rows) = Cardinality(DrawnSlots)
           /\ Len(offscreen) = 3 * Len(rows)
           /\ \A j \in DrawnSlots :
                  /\ rows[RowOfSlot(j)].dest_name = current_data.departure.m[j].k
                  /\ rows[RowOfSlot(j)].line_type
                         = at_key(FirstSegment(current_data.departure.m[j].v),
                                  <<"type">>).s
                  /\ rows[RowOfSlot(j)].destination
                         = at_key(FirstSegment(current_data.departure.m[j].v),
                                  <<"destination">>).s
                  /\ \A k \in 1..3 :
                         offscreen[3 * (RowOfSlot(j) - 1) + k].y = row_y_positions[j]

\* a board of three entries: the first is null, the second has two segments,
\* the third could be drawn; the frame has the one row of the second entry,
\* with its first segment, at the height 20
C17_Witness ==
    /\ RowsDone
    /\ Len(current_data.departure.m) = 3
    /\ is_null(current_data.departure.m[1].v)
    /\ Drawable(current_data.departure.m[2].v)
    /\ Len(at_key(current_data.departure.m[2].v, <<"segments">>).m) = 2
    /\ Drawable(current_data.departure.m[3].v)
    /\ Len(rows) = 1
    /\ rows[1].dest_name = <<"B">>
    /\ rows[1].line_type = KaiSoku
    /\ offscreen[1].y = 20

\* C18: the message list and the colour list are of the same length, and of
\* length 1 at least once the first refresh is done; the ticker step reads
\* the item at an index below the length of the list; after the ticker step
\* and until the next refresh the index is at most the length of the list,
\* and after a refresh it is at most the length the list had before it.
C18_IndexInRange ==
    /\ [](Len(current_data.scroll_messages) = Len(current_data.scroll_colors))
    /\ [](~first_run => Len(current_data.scroll_messages) >= 1)
    /\ [](tick.drew => 0 <= tick.idx /\ tick.idx < tick.len)
    /\ [](pc \in {"swap", "sleep", "loop", "refresh", "done"} =>
              msg_index <= Len(current_data.scroll_messages))
    /\ [][pc = "refresh" => msg_index' <= Len(current_data.scroll_messages)]_vars

\* a refresh has left a list shorter than the index the ticker step will find
C18_Witness ==
    /\ pc = "ticker"
    /\ Len(current_data.scroll_messages) >= 1
    /\ msg_index > Len(current_data.scroll_messages)

\* C20: if no shutdown is requested, the loop does not end, and the list
\* stays the same from some refresh on, every item of the list is the item
\* drawn again and again; the item drawn in a frame is the one at the index
\* the frame before left (the first after the last), and a frame leaves the
\* index on its item or on the next one.
C20_Cycle ==
    /\ ([](~interrupt_received /\ pc # "aborted")
            /\ <>[][current_data.scroll_messages' = current_data.scroll_messages]_vars)
           => \A i \in 0..2 :
                  []<>(tick.drew /\ (tick.idx = i \/ tick.len <= i))
    /\ [][pc = "ticker" /\ tick'.drew =>
              /\ tick'.idx = IF msg_index >= Len(current_data.scroll_messages)
                             THEN 0 ELSE msg_index
              /\ msg_index' \in {tick'.idx, tick'.idx + 1}]_vars

\* the last item of an unchanged list of several has left, and the first
\* item is drawn again
C20_Witness ==
    /\ tick.drew /\ tick.clean
    /\ ~interrupt_received
    /\ tick.len >= 2
    /\ tick.from = tick.len
    /\ tick.idx = 0
    /\ tick.x = Width

====
